---- MODULE Spec2Model ----
(***************************************************************************)
(* Model of the session multiplexer of src/src/irc/client/mod.rs:          *)
(* Client (the registry of SessionEntry values), Client::run (the mio      *)
(* readiness loop), process_writable (outbound flush), process_readable    *)
(* (inbound drain with the PING responder), process_reaction and           *)
(* SessionEntry::send.                                                     *)
(*                                                                         *)
(* The transport (Session::recv, Session::try_send, mio::Poll) is the      *)
(* environment: every call returns one of its possible results, chosen     *)
(* nondeterministically. The handler is an arbitrary function: every       *)
(* invocation returns one of a small set of Reaction values.               *)
(*                                                                         *)
(* A message is its raw text, a tuple of one-character strings.            *)
(* SessionId indices are 0-based as in the source; the entry of index i    *)
(* is sessions[i + 1].                                                     *)
(***************************************************************************)
EXTENDS Integers, Sequences, FiniteSets, TLC

\* ------------------------------------------------------------------ bounds
MaxSessions == 2   \* sessions registered before run
MaxMsgs == 2       \* outbound messages produced, all sessions together

VARIABLES
    pc,            \* position of the caller, then of Client::run: "setup", "poll"
                   \* (about to poll), "flushed" (line 101), "drain" (line 121),
                   \* "reacted" (line 137), "broke" (line 138), "returned"
    sessions,      \* Client.sessions: Seq of [output_queue, is_writable]
    event,         \* the mio event being handled
    ret,           \* what run returned, once pc = "returned"
    issued,        \* history: the SessionId indices add_session returned
    ops,           \* history: transport and handler calls of the last step
    lastReaction,  \* history: the Reaction processed in the last step
    nextId,        \* history: outbound messages produced so far (the last id given)
    wire           \* history: per session, ids the transport accepted, in order

vars == <<pc, sessions, event, ret, issued, ops, lastReaction, nextId, wire>>

\* ------------------------------------------------------------ message text
PING == <<"P", "I", "N", "G">>
PONG == <<"P", "O", "N", "G">>

Letters == {"P", "I", "N", "G", "O", "X", "Y"}

\* Position of the first `c` in `raw`, 0 when there is none.
FirstIndex(raw, c) ==
    IF \E i \in 1..Len(raw) : raw[i] = c
    THEN CHOOSE i \in 1..Len(raw) : raw[i] = c /\ \A j \in 1..(i - 1) : raw[j] # c
    ELSE 0

\* str::replacen: the first `count` occurrences of `from` become `to`.
RECURSIVE replacen(_, _, _, _)
replacen(raw, from, to, count) ==
    LET i == FirstIndex(raw, from)
    IN IF count = 0 \/ i = 0
       THEN raw
       ELSE SubSeq(raw, 1, i - 1) \o <<to>>
            \o replacen(SubSeq(raw, i + 1, Len(raw)), from, to, count - 1)

\* The line grammar of the message codec: [":" prefix SPACE] command [SPACE params].
HasPrefix(raw) == Len(raw) > 0 /\ raw[1] = ":"

raw_prefix(raw) ==
    LET sp == FirstIndex(raw, " ")
    IN IF ~HasPrefix(raw) THEN <<>>
       ELSE IF sp = 0 THEN SubSeq(raw, 2, Len(raw))
       ELSE SubSeq(raw, 2, sp - 1)

AfterPrefix(raw) ==
    LET sp == FirstIndex(raw, " ")
    IN IF ~HasPrefix(raw) THEN raw
       ELSE IF sp = 0 THEN <<>>
       ELSE SubSeq(raw, sp + 1, Len(raw))

raw_command(raw) ==
    LET body == AfterPrefix(raw)
        sp == FirstIndex(body, " ")
    IN IF sp = 0 THEN body ELSE SubSeq(body, 1, sp - 1)

raw_args(raw) ==
    LET body == AfterPrefix(raw)
        sp == FirstIndex(body, " ")
    IN IF sp = 0 THEN <<>> ELSE SubSeq(body, sp + 1, Len(body))

\* str::parse::<Message>: Ok exactly for a well-formed line.
parse_ok(raw) ==
    /\ HasPrefix(raw) => Len(raw_prefix(raw)) > 0
    /\ Len(raw_command(raw)) > 0
    /\ \A i \in 1..Len(raw_command(raw)) : raw_command(raw)[i] \in Letters

\* Lines a server sends.
InLines ==
    { <<"P", "I", "N", "G", " ", "I">>,
      <<":", "I", " ", "P", "I", "N", "G">>,
      <<"N", " ", "I">> }

\* Messages a handler answers with.
MsgX == <<"X">>
MsgY == <<"Y">>

\* ------------------------------------------------------------- environment
SendResults == {"Ok", "WouldBlock", "TimedOut", "BrokenPipe"}

\* Mutant of IsTransient: TimedOut is left out of the list.
IsTransientWouldBlockOnly(kind) == kind = "WouldBlock"

\* The io::ErrorKind test of lines 130-132, 146-148 and 183-185.
IsTransient(kind) == kind \in {"WouldBlock", "TimedOut"}

\* Session::recv: Ok(Some(msg)), Ok(None), Err(Io(kind)) or Err(parse error).
RecvMsgs == {[kind |-> "Msg", raw |-> l] : l \in {l \in InLines : parse_ok(l)}}
RecvErrs == {[kind |-> k, raw |-> <<>>] :
                k \in {"WouldBlock", "TimedOut", "ConnectionReset", "Parse"}}
RecvNone == [kind |-> "None", raw |-> <<>>]

\* ---------------------------------------------------------------- Reaction
None == [tag |-> "None"]
RawMsg(m) == [tag |-> "RawMsg", msg |-> m]
Multi(rs) == [tag |-> "Multi", rs |-> rs]

\* Values the handler returns.
Reactions ==
    { None,
      RawMsg(MsgX),
      Multi(<<Multi(<<RawMsg(MsgX)>>), None, RawMsg(MsgY)>>) }

\* Number of RawMsg leaves of a Reaction: the sends its processing attempts.
RECURSIVE Leaves(_)
RECURSIVE LeavesOfAll(_)
Leaves(r) ==
    IF r.tag = "None" THEN 0
    ELSE IF r.tag = "RawMsg" THEN 1
    ELSE LeavesOfAll(r.rs)
LeavesOfAll(rs) ==
    IF rs = <<>> THEN 0 ELSE Leaves(Head(rs)) + LeavesOfAll(Tail(rs))

\* ------------------------------------------------------------ history records
SendOp(s, m, id, res) == [op |-> "try_send", s |-> s, kind |-> res, raw |-> m, id |-> id]
RecvOp(s, r) == [op |-> "recv", s |-> s, kind |-> r.kind, raw |-> r.raw, id |-> 0]
HandlerOp(s, r) == [op |-> "handler", s |-> s, kind |-> r.kind, raw |-> r.raw, id |-> 0]

\* ------------------------------------------------------------------ helpers
SessionIds == 0..(MaxSessions - 1)

NewEntry == [output_queue |-> <<>>, is_writable |-> FALSE]

\* The value of `event` while no event is being handled.
NoEvent == [token |-> 0, readable |-> FALSE, writable |-> FALSE]

\* A queued message: its text, and (history) the order in which it was produced.
Queued(m, id) == [raw |-> m, id |-> id]

\* The state threaded through the processing of one step: the entry, the results
\* the transport will give to the coming try_send calls, and the history.
Start(entry, outs, id, w) ==
    [entry |-> entry, outs |-> outs, id |-> id, wire |-> w, ops |-> <<>>]

\* ------------------------------------------------------- SessionEntry::send
\* Mutant of send: a message that could not be sent goes to the head of the
\* queue.
send_at_front(st, s, msg) ==
    LET res == Head(st.outs)
        id == st.id + 1
        tried == [st EXCEPT !.outs = Tail(@), !.id = id,
                            !.ops = Append(@, SendOp(s, msg, id, res))]
    IN IF res = "Ok"
       THEN [tried EXCEPT !.wire = Append(@, id)]
       ELSE IF IsTransient(res)
       THEN [tried EXCEPT !.entry.output_queue = <<Queued(msg, id)>> \o @,
                          !.entry.is_writable = FALSE]
       ELSE tried
\* Mutant of send: a transient failure pushes the message but leaves the
\* flag as it was.
send_keeps_flag(st, s, msg) ==
    LET res == Head(st.outs)
        id == st.id + 1
        tried == [st EXCEPT !.outs = Tail(@), !.id = id,
                            !.ops = Append(@, SendOp(s, msg, id, res))]
    IN IF res = "Ok"
       THEN [tried EXCEPT !.wire = Append(@, id)]
       ELSE IF IsTransient(res)
       THEN [tried EXCEPT !.entry.output_queue = Append(@, Queued(msg, id))]
       ELSE tried
\* Mutant of send: a transient failure clears the flag but the message is
\* not pushed.
send_without_push(st, s, msg) ==
    LET res == Head(st.outs)
        id == st.id + 1
        tried == [st EXCEPT !.outs = Tail(@), !.id = id,
                            !.ops = Append(@, SendOp(s, msg, id, res))]
    IN IF res = "Ok"
       THEN [tried EXCEPT !.wire = Append(@, id)]
       ELSE IF IsTransient(res)
       THEN [tried EXCEPT !.entry.is_writable = FALSE]
       ELSE tried

send(st, s, msg) ==
    LET res == Head(st.outs)
        id == st.id + 1
        tried == [st EXCEPT !.outs = Tail(@), !.id = id,
                            !.ops = Append(@, SendOp(s, msg, id, res))]
    IN IF res = "Ok"
       THEN [tried EXCEPT !.wire = Append(@, id)]
       ELSE IF IsTransient(res)
       THEN [tried EXCEPT !.entry.is_writable = FALSE,
                          !.entry.output_queue = Append(@, Queued(msg, id))]
       ELSE tried

\* --------------------------------------------------------- process_reaction
RECURSIVE process_reaction(_, _, _)
RECURSIVE process_each(_, _, _)
process_reaction(st, s, reaction) ==
    IF reaction.tag = "None" THEN st
    ELSE IF reaction.tag = "RawMsg" THEN send(st, s, reaction.msg)
    ELSE process_each(st, s, reaction.rs)
\* Mutant of process_each: the elements are taken from the back of the Vec.
RECURSIVE process_each_reversed(_, _, _)
process_each_reversed(st, s, reactions) ==
    IF reactions = <<>> THEN st
    ELSE process_reaction(process_each_reversed(st, s, Tail(reactions)),
                          s, Head(reactions))

process_each(st, s, reactions) ==
    IF reactions = <<>> THEN st
    ELSE process_each(process_reaction(st, s, Head(reactions)), s, Tail(reactions))

\* --------------------------------------------------------- process_writable
\* Mutant of flush_arm: a transient failure is counted as consumed.
flush_arm_counts_transient(tried, msg, res, msgs_consumed) ==
    IF res = "Ok"
    THEN [st |-> [tried EXCEPT !.wire = Append(@, msg.id)],
          msgs_consumed |-> msgs_consumed + 1, stop |-> FALSE]
    ELSE IF IsTransient(res)
    THEN [st |-> [tried EXCEPT !.entry.is_writable = FALSE],
          msgs_consumed |-> msgs_consumed + 1, stop |-> TRUE]
    ELSE [st |-> tried, msgs_consumed |-> msgs_consumed + 1, stop |-> FALSE]

\* Mutant of flush_arm: any failure leaves the loop, the message kept.
flush_arm_stops_on_error(tried, msg, res, msgs_consumed) ==
    IF res = "Ok"
    THEN [st |-> [tried EXCEPT !.wire = Append(@, msg.id)],
          msgs_consumed |-> msgs_consumed + 1, stop |-> FALSE]
    ELSE IF IsTransient(res)
    THEN [st |-> [tried EXCEPT !.entry.is_writable = FALSE],
          msgs_consumed |-> msgs_consumed, stop |-> TRUE]
    ELSE [st |-> tried, msgs_consumed |-> msgs_consumed, stop |-> TRUE]

\* Mutant of flush_arm: a transient failure leaves the loop without clearing
\* the flag.
flush_arm_keeps_flag(tried, msg, res, msgs_consumed) ==
    IF res = "Ok"
    THEN [st |-> [tried EXCEPT !.wire = Append(@, msg.id)],
          msgs_consumed |-> msgs_consumed + 1, stop |-> FALSE]
    ELSE IF IsTransient(res)
    THEN [st |-> tried, msgs_consumed |-> msgs_consumed, stop |-> TRUE]
    ELSE [st |-> tried, msgs_consumed |-> msgs_consumed + 1, stop |-> FALSE]

\* The match of lines 144-159 for the queued message `msg` whose try_send gave
\* `res`: the state after it, the count of consumed messages, and whether the
\* for loop is left.
flush_arm(tried, msg, res, msgs_consumed) ==
    IF res = "Ok"
    THEN [st |-> [tried EXCEPT !.wire = Append(@, msg.id)],
          msgs_consumed |-> msgs_consumed + 1, stop |-> FALSE]
    ELSE IF IsTransient(res)
    THEN [st |-> [tried EXCEPT !.entry.is_writable = FALSE],
          msgs_consumed |-> msgs_consumed, stop |-> TRUE]
    ELSE [st |-> tried, msgs_consumed |-> msgs_consumed + 1, stop |-> FALSE]

\* The for loop of lines 143-160, from queue position `index` on.
RECURSIVE flush_loop(_, _, _, _)
flush_loop(st, s, index, msgs_consumed) ==
    IF index > Len(st.entry.output_queue)
    THEN [st |-> st, msgs_consumed |-> msgs_consumed]
    ELSE LET msg == st.entry.output_queue[index]
             res == Head(st.outs)
             tried == [st EXCEPT !.outs = Tail(@),
                                 !.ops = Append(@, SendOp(s, msg.raw, msg.id, res))]
             arm == flush_arm(tried, msg, res, msgs_consumed)
         IN IF arm.stop
            THEN [st |-> arm.st, msgs_consumed |-> arm.msgs_consumed]
            ELSE flush_loop(arm.st, s, index + 1, arm.msgs_consumed)

\* Mutant of drain: the elements are removed from the back.
drain_from_back(queue, n) == SubSeq(queue, 1, Len(queue) - n)

\* Mutant of drain: the range is inclusive, `..=n`.
drain_inclusive(queue, n) == SubSeq(queue, n + 2, Len(queue))

\* Vec::drain(..n): the queue without its first n elements.
drain(queue, n) == SubSeq(queue, n + 1, Len(queue))

process_writable(st, s) ==
    LET done == flush_loop(st, s, 1, 0)
    IN [done.st EXCEPT !.entry.output_queue = drain(@, done.msgs_consumed)]

\* -------------------------------------------------------------------- state
Init ==
    /\ pc = "setup"
    /\ sessions = <<>>
    /\ event = NoEvent
    /\ ret = "none"
    /\ issued = <<>>
    /\ ops = <<>>
    /\ lastReaction = None
    /\ nextId = 0
    /\ wire = [s \in SessionIds |-> <<>>]

\* Mutant of add_session: the index is taken after the push.
add_session_index_after_push(ss) ==
    LET index == Len(Append(ss, NewEntry))
    IN [sessions |-> Append(ss, NewEntry), id |-> index]

\* Client::add_session, called by the owner of the Client before run.
add_session(ss) ==
    LET index == Len(ss)
    IN [sessions |-> Append(ss, NewEntry), id |-> index]

AddSession ==
    /\ pc = "setup"
    /\ Len(sessions) < MaxSessions
    /\ LET r == add_session(sessions)
       IN /\ sessions' = r.sessions
          /\ issued' = Append(issued, r.id)
    /\ ops' = <<>>
    /\ lastReaction' = None
    /\ UNCHANGED <<pc, event, ret, nextId, wire>>

\* Client::run, lines 70-85: mio::Poll::new() and the registration of every session.
Returns(value) ==
    /\ pc' = "returned"
    /\ ret' = value
    /\ ops' = <<>>
    /\ lastReaction' = None
    /\ UNCHANGED <<sessions, event, issued, nextId, wire>>

RunPollNewFails ==
    /\ pc = "setup"
    /\ Returns("Err(Poll::new)")

RunRegisterFails ==
    /\ pc = "setup"
    /\ \E index \in 0..(Len(sessions) - 1) : Returns("Err(register)")

RunEntersLoop ==
    /\ pc = "setup"
    /\ pc' = "poll"
    /\ ops' = <<>>
    /\ lastReaction' = None
    /\ UNCHANGED <<sessions, event, ret, issued, nextId, wire>>

\* Line 88: poll.poll(&mut events, None)?
PollFails ==
    /\ pc = "poll"
    /\ Returns("Err(poll)")

\* Mutant of on_writable: an event that is readable too is only read.
on_writable_unless_readable(entry, ev, s, outs, id, w) ==
    LET marked == IF ev.writable THEN [entry EXCEPT !.is_writable = TRUE] ELSE entry
        st == Start(marked, outs, id, w)
    IN IF marked.is_writable /\ ~ev.readable THEN process_writable(st, s)
       ELSE [st EXCEPT !.outs = <<>>]

\* Lines 92-100: the writable half of the handling of one event.
on_writable(entry, ev, s, outs, id, w) ==
    LET marked == IF ev.writable THEN [entry EXCEPT !.is_writable = TRUE] ELSE entry
        st == Start(marked, outs, id, w)
    IN IF marked.is_writable THEN process_writable(st, s) ELSE st

\* Lines 88-104: poll yields an event, whose token is a session index; its
\* writable half is handled, and the drain follows when it signals readable.
HandleEvent ==
    /\ pc = "poll"
    /\ \E token \in 0..(Len(sessions) - 1), readable \in BOOLEAN, writable \in BOOLEAN :
          LET ev == [token |-> token, readable |-> readable, writable |-> writable]
              s == token
              entry == sessions[s + 1]
              flushes == writable \/ entry.is_writable
          IN /\ readable \/ writable
             /\ event' = ev
             /\ pc' = "flushed"
             /\ \E outs \in (IF flushes
                             THEN [1..Len(entry.output_queue) -> SendResults]
                             ELSE {<<>>}) :
                   LET st == on_writable(entry, ev, s, outs, nextId, wire[s])
                   IN /\ sessions' = [sessions EXCEPT ![s + 1] = st.entry]
                      /\ wire' = [wire EXCEPT ![s] = st.wire]
                      /\ ops' = st.ops
    /\ lastReaction' = None
    /\ UNCHANGED <<ret, issued, nextId>>

\* --------------------------------------------------------- process_readable
\* Mutant of msg_ctx: the context always names the first session.
msg_ctx_first(session_index) == [session_id |-> [index |-> 0]]

\* Line 117: the context handed to the handler.
msg_ctx(session_index) == [session_id |-> [index |-> session_index]]

\* Line 122: the guard of the keepalive arm.
is_ping(r) == r.kind = "Msg" /\ raw_command(r.raw) = PING

\* Line 123: the text the reply is parsed from.
pong_text(raw) == replacen(raw, "I", "O", 1)

\* Mutant of breaks: every failed receive leaves the loop.
breaks_on_any_error(r) == r.kind # "Msg"

\* Mutant of breaks: only Ok(None) leaves the loop.
breaks_on_none_only(r) == r.kind = "None"

\* Lines 129-132: the arms that leave the loop.
breaks(r) == r.kind = "None" \/ (r.kind # "Msg" /\ IsTransient(r.kind))

\* Mutant of invokes_handler: no keepalive arm, a PING goes to the handler.
invokes_handler_for_ping(r) == ~breaks(r)

\* Lines 125, 128, 133: the arms that call msg_handler_with_ctx.
invokes_handler(r) ==
    IF is_ping(r) THEN ~parse_ok(pong_text(r.raw)) ELSE ~breaks(r)

\* What the handler is called with: Ok(msg), or Err(err).
handler_input(r) ==
    IF is_ping(r) THEN [kind |-> "Parse", raw |-> <<>>] ELSE r

\* The Reaction values line 121 can bind: the reply, or what the handler returns.
reactions_of(r) ==
    IF is_ping(r) /\ parse_ok(pong_text(r.raw))
    THEN {RawMsg(pong_text(r.raw))}
    ELSE Reactions

\* One iteration of the loop of lines 120-137 that does not break.
Iterate(r) ==
    /\ pc = "drain"
    /\ ~breaks(r)
    /\ LET s == event.token
           entry == sessions[s + 1]
           ctx == msg_ctx(s)
           called == invokes_handler(r)
           input == handler_input(r)
       IN \E reaction \in reactions_of(r) :
             /\ nextId + Leaves(reaction) <= MaxMsgs
             /\ \E outs \in [1..Leaves(reaction) -> SendResults] :
                   LET st == process_reaction(Start(entry, outs, nextId, wire[s]),
                                              s, reaction)
                   IN /\ sessions' = [sessions EXCEPT ![s + 1] = st.entry]
                      /\ wire' = [wire EXCEPT ![s] = st.wire]
                      /\ nextId' = st.id
                      /\ ops' = <<RecvOp(s, r)>>
                                \o (IF called
                                    THEN <<HandlerOp(ctx.session_id.index, input)>>
                                    ELSE <<>>)
                                \o st.ops
             /\ lastReaction' = reaction
    /\ pc' = "reacted"
    /\ UNCHANGED <<event, ret, issued>>

\* Lines 122-127: a PING is answered.
DrainKeepalive == \E r \in RecvMsgs : is_ping(r) /\ Iterate(r)

\* Lines 128 and 133: a message or an error goes to the handler.
DrainDeliver == \E r \in RecvMsgs \cup RecvErrs : ~is_ping(r) /\ Iterate(r)

\* Lines 129-132: nothing more to read; back to the loop of run.
DrainBreak ==
    /\ pc = "drain"
    /\ \E r \in {RecvNone} \cup RecvErrs :
          /\ breaks(r)
          /\ ops' = <<RecvOp(event.token, r)>>
    /\ pc' = "broke"
    /\ lastReaction' = None
    /\ UNCHANGED <<sessions, event, ret, issued, nextId, wire>>

\* The way on from the end of a step: line 102 (the drain follows the flush
\* when the event signals readable), line 137 (the loop of process_readable
\* receives again), lines 105-106 (the next event). The history of the step
\* that ended is dropped.
\* Mutant of after_step: no outer `loop`; after the last event run falls
\* through to line 108.
after_step_once(at, ev) ==
    IF at = "reacted" \/ (at = "flushed" /\ ev.readable) THEN "drain" ELSE "returned"

after_step(at, ev) ==
    IF at = "reacted" \/ (at = "flushed" /\ ev.readable) THEN "drain" ELSE "poll"

Continue ==
    /\ pc \in {"flushed", "reacted", "broke"}
    /\ pc' = after_step(pc, event)
    /\ event' = IF pc' = "poll" THEN NoEvent ELSE event
    /\ ops' = <<>>
    /\ lastReaction' = None
    /\ UNCHANGED <<sessions, ret, issued, nextId, wire>>

\* ------------------------------------------------------------ specification
Next ==
    \/ AddSession
    \/ RunPollNewFails
    \/ RunRegisterFails
    \/ RunEntersLoop
    \/ PollFails
    \/ HandleEvent
    \/ DrainKeepalive
    \/ DrainDeliver
    \/ DrainBreak
    \/ Continue

Spec == Init /\ [][Next]_vars

\* One pass of the loop of process_readable: recv returns and its arm runs.
ReceiveStep == DrainKeepalive \/ DrainDeliver \/ DrainBreak

\* The thread of run is not suspended within the handling of an event: recv
\* and try_send do not block and the handler returns, so the statement that
\* follows is executed. Nothing is assumed of poll, nor of what recv returns.
SpecFair == Spec /\ WF_vars(ReceiveStep) /\ WF_vars(Continue)

\* =============================================================== properties
Transient == {"WouldBlock", "TimedOut"}

IsSend(o) == o.op = "try_send"
IsRecv(o) == o.op = "recv"
IsHandler(o) == o.op = "handler"

SendsOf(os) == SelectSeq(os, IsSend)
RecvsOf(os) == SelectSeq(os, IsRecv)
HandlersOf(os) == SelectSeq(os, IsHandler)

\* The queue entry a try_send was made for.
AsQueued(o) == Queued(o.raw, o.id)

IsOkSend(o) == IsSend(o) /\ o.kind = "Ok"

\* The entries the transport accepted in the sends `os`, in order.
Accepted(os) ==
    LET oks == SelectSeq(os, IsOkSend)
    IN [i \in 1..Len(oks) |-> AsQueued(oks[i])]

IdsOf(q) == [i \in 1..Len(q) |-> q[i].id]

Increasing(ids) == \A i, j \in 1..Len(ids) : i < j => ids[i] < ids[j]

\* A step of HandleEvent in which process_writable ran (lines 94-100).
FlushRan ==
    /\ pc = "poll"
    /\ pc' = "flushed"
    /\ event'.writable \/ sessions[event'.token + 1].is_writable

\* ----------------------------------------------------------------------- C1
\* C1: the outbound messages of a session reach the transport in the order in
\* which they were produced: the ids the transport accepted, which number the
\* messages of all sessions in production order, are increasing per session.
C1_WireInProductionOrder == \A s \in SessionIds : Increasing(wire[s])

\* ----------------------------------------------------------------------- C2
\* C2: a flush in which no send fails for good hands the queued messages to
\* the transport in queue order, each once: the queue before it is what the
\* transport accepted in it followed by the queue after it, nothing is accepted
\* after the first transient failure, and when every send succeeds the queue
\* ends empty. Repeated over flushes that meet transient failures and a last
\* one that meets none, every message is handed over exactly once, in order.
C2_FlushHandsOverOnceInOrder ==
    [][(pc = "poll" /\ pc' = "flushed"
            /\ \A i \in 1..Len(ops') : ops'[i].kind \in Transient \cup {"Ok"})
        => LET s == event'.token
               before == sessions[s + 1].output_queue
               after == sessions'[s + 1].output_queue
           IN /\ before = Accepted(ops') \o after
              /\ wire'[s] = wire[s] \o IdsOf(Accepted(ops'))
              /\ SendsOf(ops') = ops'
              /\ \A i \in 1..Len(ops') : ops'[i].kind \in Transient => i = Len(ops')
              /\ (FlushRan /\ \A i \in 1..Len(ops') : ops'[i].kind = "Ok")
                 => after = <<>> /\ Len(ops') = Len(before)]_vars

\* Reached: a flush that handed two queued messages over and emptied the queue.
C2_Witness ==
    /\ pc = "flushed"
    /\ Len(ops) = 2
    /\ \A i \in 1..Len(ops) : ops[i].kind = "Ok"
    /\ sessions[event.token + 1].output_queue = <<>>
    /\ Len(wire[event.token]) = 2

\* ----------------------------------------------------------------------- C3
\* C3 as stated: run returns only for a failed Poll::new or a failed register.
C3_ReturnsOnlyOnSetupError ==
    pc = "returned" => ret \in {"Err(Poll::new)", "Err(register)"}

\* C3 amended: run returns only an error, and only from the setup (Poll::new,
\* register) or from a poll call that fails; no step of flushing, receiving,
\* handling or sending makes it return.
C3_ReturnsOnlyOnSetupOrPollError ==
    [][(pc' = "returned" /\ pc # "returned")
        => \/ pc = "setup" /\ ret' \in {"Err(Poll::new)", "Err(register)"}
           \/ pc = "poll" /\ ret' = "Err(poll)"]_vars

\* Reached: run has returned the error of a poll call, messages still queued.
C3_Witness ==
    /\ pc = "returned"
    /\ ret = "Err(poll)"
    /\ \E i \in 1..Len(sessions) : sessions[i].output_queue # <<>>

\* ----------------------------------------------------------------------- C4
\* A step of the drain that received a message whose command is PING.
PingStep == pc = "drain" /\ pc' = "reacted" /\ ops'[1].kind = "Msg"
              /\ raw_command(ops'[1].raw) = PING

ParseError == [kind |-> "Parse", raw |-> <<>>]

\* C4: for a received PING whose derived text re-parses, the handler is not
\* invoked and the reply is processed as Reaction::RawMsg(reply) on the same
\* session: one try_send of the reply, queued (flag cleared) exactly when that
\* fails transiently; when the derived text does not re-parse, the handler is
\* invoked once, with the parse error.
C4_KeepaliveAnsweredWithoutHandler ==
    [][PingStep
        => LET s == event.token
               reply == pong_text(ops'[1].raw)
               entry == sessions[s + 1]
           IN IF parse_ok(reply)
              THEN /\ HandlersOf(ops') = <<>>
                   /\ lastReaction' = RawMsg(reply)
                   /\ Len(ops') = 2
                   /\ IsSend(ops'[2]) /\ ops'[2].raw = reply /\ ops'[2].s = s
                   /\ sessions' = [sessions EXCEPT ![s + 1] =
                         IF ops'[2].kind \in Transient
                         THEN [output_queue |-> Append(entry.output_queue,
                                                       AsQueued(ops'[2])),
                               is_writable |-> FALSE]
                         ELSE entry]
              ELSE /\ HandlersOf(ops') = <<HandlerOp(s, ParseError)>>
                   /\ ops'[2] = HandlerOp(s, ParseError)]_vars

\* Reached: a PING was answered, the transport accepted the reply, and the
\* handler was not invoked.
C4_Witness ==
    /\ pc = "reacted"
    /\ ops[1].kind = "Msg" /\ raw_command(ops[1].raw) = PING
    /\ Len(ops) = 2
    /\ IsOkSend(ops[2])
    /\ ops[2].raw = pong_text(ops[1].raw)

\* ----------------------------------------------------------------------- C5
\* `reply` is `raw` with its first "I" replaced by "O".
FirstIReplaced(raw, reply) ==
    \E i \in 1..Len(raw) :
        /\ raw[i] = "I"
        /\ \A j \in 1..(i - 1) : raw[j] # "I"
        /\ reply = [raw EXCEPT ![i] = "O"]

\* C5: the reply sent for a PING is the probe's text with the first "I"
\* replaced by "O", and is PONG-shaped: its command is PONG, its prefix and
\* its parameters are the probe's.
C5_ReplyIsPongShaped ==
    (pc = "reacted" /\ ops[1].kind = "Msg" /\ raw_command(ops[1].raw) = PING
        /\ Len(ops) = 2 /\ IsSend(ops[2]))
    => LET probe == ops[1].raw
           reply == ops[2].raw
       IN /\ FirstIReplaced(probe, reply)
          /\ raw_command(reply) = PONG
          /\ raw_prefix(reply) = raw_prefix(probe)
          /\ raw_args(reply) = raw_args(probe)

\* ----------------------------------------------------------------------- C6
\* What receive yielded that the handler is owed: a message that is not a
\* PING, or an error that is not transient.
Deliverable(o) ==
    \/ o.kind = "Msg" /\ raw_command(o.raw) # PING
    \/ o.kind \notin {"Msg", "None"} \cup Transient

\* C6: in every step, the handler's invocations are the deliverable results of
\* the step's receives, one each, in the same order, each with the context
\* index of the session the event is for. A step makes at most one receive, so
\* the order of invocations over a drain is the order of the receives.
C6_HandlerOncePerInputInOrder ==
    LET owed == SelectSeq(RecvsOf(ops), Deliverable)
        calls == HandlersOf(ops)
    IN /\ Len(RecvsOf(ops)) <= 1
       /\ Len(calls) = Len(owed)
       /\ \A i \in 1..Len(calls) :
             /\ calls[i] = [owed[i] EXCEPT !.op = "handler"]
             /\ calls[i].s = event.token
       /\ \A i \in 1..Len(ops) : IsRecv(ops[i]) => ops[i].s = event.token /\ i = 1
       /\ \A i \in 1..Len(ops) : IsHandler(ops[i]) => i = 2

\* Reached: the second session received a message and the handler was invoked
\* with it and with that session's index.
C6_Witness ==
    /\ pc = "reacted"
    /\ event.token = 1
    /\ ops[1].kind = "Msg"
    /\ Len(ops) >= 2
    /\ IsHandler(ops[2]) /\ ops[2].s = 1 /\ ops[2].raw = ops[1].raw

\* ----------------------------------------------------------------------- C7
InQueue(q, e) == \E i \in 1..Len(q) : q[i] = e

\* C7: no handler invocation has a would-block or timed-out error as its
\* input; a receive that fails so ends the drain, with no other call; a send
\* that fails so leaves its message queued and the writable flag false.
C7_TransientNeverReachesHandler ==
    /\ \A i \in 1..Len(ops) : IsHandler(ops[i]) => ops[i].kind \notin Transient
    /\ (ops # <<>> /\ IsRecv(ops[1]) /\ ops[1].kind \in Transient)
          => pc = "broke" /\ Len(ops) = 1
    /\ \A i \in 1..Len(ops) :
          (IsSend(ops[i]) /\ ops[i].kind \in Transient)
          => /\ pc \in {"flushed", "reacted"}
             /\ ~sessions[ops[i].s + 1].is_writable
             /\ InQueue(sessions[ops[i].s + 1].output_queue, AsQueued(ops[i]))

\* Reached: the handler was invoked and a send of its reaction timed out.
C7_Witness ==
    /\ pc = "reacted"
    /\ \E i \in 1..Len(ops) : IsHandler(ops[i])
    /\ \E i \in 1..Len(ops) : IsSend(ops[i]) /\ ops[i].kind = "TimedOut"

\* ----------------------------------------------------------------------- C8
\* C8: a drain iteration whose receive yields no message, or a transient
\* failure, makes no other call and changes no entry: the handler is not
\* invoked, no send is attempted, every queue and flag is as before. Every
\* repetition is such a step.
C8_EmptyDrainIsNoOp ==
    [][(pc = "drain" /\ ops'[1].kind \in {"None"} \cup Transient)
        => /\ ops' = <<RecvOp(event.token, [kind |-> ops'[1].kind, raw |-> <<>>])>>
           /\ sessions' = sessions
           /\ wire' = wire
           /\ nextId' = nextId
           /\ pc' = "broke"]_vars

\* Reached: the drain of a session with a queued message ended on a would-block.
C8_Witness ==
    /\ pc = "broke"
    /\ ops = <<RecvOp(event.token, [kind |-> "WouldBlock", raw |-> <<>>])>>
    /\ sessions[event.token + 1].output_queue # <<>>

\* ----------------------------------------------------------------------- C9
HasTransient(os) == \E i \in 1..Len(os) : os[i].kind \in Transient

FirstTransient(os) ==
    CHOOSE i \in 1..Len(os) :
        os[i].kind \in Transient /\ \A j \in 1..(i - 1) : os[j].kind \notin Transient

\* C9: in a flush whose N-th send is the first to fail transiently, the sends
\* attempted are those of the queued messages 1..N in order and no other, the
\* queue afterwards is the former messages N..end, those before N that the
\* transport accepted are on the wire, and the writable flag is false.
C9_BackpressureBoundary ==
    [][(FlushRan /\ HasTransient(ops'))
        => LET s == event'.token
               before == sessions[s + 1].output_queue
               n == FirstTransient(ops')
           IN /\ Len(ops') = n
              /\ \A i \in 1..n : IsSend(ops'[i]) /\ AsQueued(ops'[i]) = before[i]
              /\ sessions'[s + 1].output_queue = SubSeq(before, n, Len(before))
              /\ ~sessions'[s + 1].is_writable
              /\ wire'[s] = wire[s] \o IdsOf(Accepted(ops'))]_vars

\* Reached: a flush whose first send was consumed and whose second failed
\* transiently, leaving the second message queued.
C9_Witness ==
    /\ pc = "flushed"
    /\ Len(ops) = 2
    /\ ops[1].kind \notin Transient
    /\ ops[2].kind \in Transient
    /\ sessions[event.token + 1].output_queue = <<AsQueued(ops[2])>>
    /\ ~sessions[event.token + 1].is_writable

\* ---------------------------------------------------------------------- C10
IsFailure(o) == o.kind \notin Transient \cup {"Ok"}

InSeq(q, x) == \E i \in 1..Len(q) : q[i] = x

\* C10: in a flush, a queued message whose send fails non-transiently is no
\* longer queued afterwards and is not on the wire, and the next queued message
\* is attempted after it; a queue [M1, M2] whose M1 fails so and whose M2 is
\* accepted ends empty with M2, and not M1, on the wire.
C10_FailedSendIsDroppedFlushGoesOn ==
    [][FlushRan
        => LET s == event'.token
               before == sessions[s + 1].output_queue
               after == sessions'[s + 1].output_queue
           IN /\ \A i \in 1..Len(ops') :
                    IsFailure(ops'[i])
                    => /\ AsQueued(ops'[i]) = before[i]
                       /\ ~InSeq(after, before[i])
                       /\ ~InSeq(wire'[s], before[i].id)
                       /\ i < Len(before)
                            => Len(ops') > i /\ AsQueued(ops'[i + 1]) = before[i + 1]
              /\ (Len(before) = 2 /\ Len(ops') = 2
                    /\ IsFailure(ops'[1]) /\ ops'[2].kind = "Ok")
                 => after = <<>> /\ wire'[s] = Append(wire[s], before[2].id)]_vars

\* Reached: a flush of two messages, the first failed for good, the second
\* accepted; the queue is empty and only the second is on the wire.
C10_Witness ==
    /\ pc = "flushed"
    /\ Len(ops) = 2
    /\ IsFailure(ops[1]) /\ ops[2].kind = "Ok"
    /\ sessions[event.token + 1].output_queue = <<>>
    /\ InSeq(wire[event.token], ops[2].id)
    /\ ~InSeq(wire[event.token], ops[1].id)

\* ---------------------------------------------------------------------- C11
SendKinds(os) == [i \in 1..Len(SendsOf(os)) |-> SendsOf(os)[i].kind]

\* The first k elements of `rs` processed one after another, each as if it
\* had been returned alone, on the state the one before it left.
RECURSIVE OneAfterAnother(_, _, _, _)
OneAfterAnother(st, s, rs, k) ==
    IF k = 0 THEN st
    ELSE process_reaction(OneAfterAnother(st, s, rs, k - 1), s, rs[k])

\* A step of the drain that did not break, and the state its Reaction met.
ReactStep == pc = "drain" /\ pc' = "reacted"

Met == Start(sessions[event.token + 1], SendKinds(ops'), nextId, wire[event.token])

\* C11: a step that processes Reaction::Multi(rs) leaves the entry, the wire
\* and the sequence of send attempts that processing the elements of rs one
\* after another leaves, given the same transport results; a step that
\* processes Reaction::None attempts no send and changes no entry.
C11_MultiIsSequentialProcessing ==
    [][ReactStep
        => LET s == event.token
               r == lastReaction'
           IN /\ r.tag = "Multi"
                 => LET st == OneAfterAnother(Met, s, r.rs, Len(r.rs))
                    IN /\ sessions' = [sessions EXCEPT ![s + 1] = st.entry]
                       /\ wire' = [wire EXCEPT ![s] = st.wire]
                       /\ SendsOf(ops') = st.ops
                       /\ st.outs = <<>>
              /\ r.tag = "None"
                 => SendsOf(ops') = <<>> /\ sessions' = sessions /\ wire' = wire]_vars

\* Reached: a nested Multi was processed; its first message was queued and
\* its second accepted, in that order.
C11_Witness ==
    /\ pc = "reacted"
    /\ lastReaction = Multi(<<Multi(<<RawMsg(MsgX)>>), None, RawMsg(MsgY)>>)
    /\ Len(SendsOf(ops)) = 2
    /\ SendsOf(ops)[1].raw = MsgX /\ SendsOf(ops)[1].kind = "WouldBlock"
    /\ SendsOf(ops)[2].raw = MsgY /\ SendsOf(ops)[2].kind = "Ok"

\* ---------------------------------------------------------------------- C12
QueueTexts(q) == [i \in 1..Len(q) |-> q[i].raw]

\* A step of the handling of an event: the flush, or an iteration of the drain.
HandlingStep == pc \in {"poll", "drain"} /\ pc' \in {"flushed", "reacted", "broke"}

\* Every call of the step is on the event's session, and the entry and the
\* wire of every other session are as before.
OthersUntouched ==
    /\ \A i \in 1..Len(ops') : ops'[i].s = event'.token
    /\ Len(sessions') = Len(sessions)
    /\ \A b \in 0..(Len(sessions) - 1) :
          b # event'.token => sessions'[b + 1] = sessions[b + 1] /\ wire'[b] = wire[b]

\* A step in which the handler was invoked and returned Reaction::RawMsg(X).
RepliedWithOne ==
    /\ ReactStep
    /\ lastReaction'.tag = "RawMsg"
    /\ Len(ops') = 3
    /\ IsRecv(ops'[1]) /\ ops'[1].kind = "Msg"
    /\ IsHandler(ops'[2])
    /\ IsSend(ops'[3]) /\ ops'[3].raw = lastReaction'.msg

\* C12 as stated: other sessions are untouched, and after the reply the
\* session's queue is empty if the send succeeded and exactly [X] if it failed
\* transiently.
C12_QueueEmptyOrJustReply ==
    [][/\ HandlingStep => OthersUntouched
       /\ RepliedWithOne
          => LET after == sessions'[event.token + 1].output_queue
             IN /\ ops'[3].kind = "Ok" => after = <<>>
                /\ ops'[3].kind \in Transient
                      => QueueTexts(after) = <<lastReaction'.msg>>]_vars

\* C12 amended: other sessions are untouched, and after the reply the
\* session's queue is the queue it had before the receive if the send
\* succeeded, and that queue with X appended if it failed transiently: empty,
\* or exactly [X], when it was empty before.
C12_OnlyEventSessionChanges ==
    [][/\ HandlingStep => OthersUntouched
       /\ RepliedWithOne
          => LET before == sessions[event.token + 1].output_queue
                 after == sessions'[event.token + 1].output_queue
             IN /\ ops'[3].kind = "Ok" => after = before
                /\ ops'[3].kind \in Transient
                      => after = Append(before, AsQueued(ops'[3]))
                /\ (before = <<>> /\ ops'[3].kind \in Transient)
                      => QueueTexts(after) = <<lastReaction'.msg>>]_vars

\* Reached: of two sessions, the first received a message, the handler
\* returned RawMsg(X), the send would block and X is the sole queued message,
\* while the second session holds a queued message of its own.
C12_Witness ==
    /\ pc = "reacted"
    /\ Len(sessions) = 2
    /\ event.token = 0
    /\ lastReaction = RawMsg(MsgX)
    /\ Len(ops) = 3 /\ ops[1].kind = "Msg" /\ IsHandler(ops[2])
    /\ ops[3].kind = "WouldBlock"
    /\ QueueTexts(sessions[1].output_queue) = <<MsgX>>
    /\ sessions[2].output_queue # <<>>

\* ---------------------------------------------------------------------- C13
SendFailedTransiently(os, s) ==
    \E i \in 1..Len(os) : IsSend(os[i]) /\ os[i].s = s /\ os[i].kind \in Transient

SendSucceeded(os, s) ==
    \E i \in 1..Len(os) : IsOkSend(os[i]) /\ os[i].s = s

\* C13: a session's writable flag is false when add_session has registered
\* it; it goes from false to true only in the handling of a writable event
\* for that session, or where a send on it succeeded; and it is false after
\* every step in which a send on the session, in the flush or immediate,
\* failed transiently.
C13_WritableFlagTransitions ==
    [][/\ Len(sessions') = Len(sessions) + 1
          => sessions'[Len(sessions')].is_writable = FALSE
       /\ \A s \in 0..(Len(sessions) - 1) :
             /\ (~sessions[s + 1].is_writable /\ sessions'[s + 1].is_writable)
                   => \/ pc = "poll" /\ event'.writable /\ event'.token = s
                      \/ SendSucceeded(ops', s)
             /\ SendFailedTransiently(ops', s) => ~sessions'[s + 1].is_writable]_vars

\* Reached: the first session's flag is true, set by a writable event, and on
\* the second session, whose flag a writable event had set, a send made in
\* the drain has just failed transiently and the flag is false.
C13_Witness ==
    /\ pc = "reacted"
    /\ Len(sessions) = 2
    /\ event.token = 1
    /\ sessions[1].is_writable
    /\ SendFailedTransiently(ops, 1)
    /\ ~sessions[2].is_writable

\* ---------------------------------------------------------------------- C14
\* C14: the k-th call of add_session, counting from 0, returns the id of
\* index k, so the ids issued are distinct and strictly increasing; the call
\* appends exactly one entry, with an empty queue and the flag false, and
\* leaves the entries registered before as they were.
C14_AddSessionIssuesNextIndex ==
    /\ [](/\ Len(issued) = Len(sessions)
          /\ \A k \in 1..Len(issued) : issued[k] = k - 1
          /\ Increasing(issued))
    /\ [][Len(issued') # Len(issued)
          => /\ issued' = Append(issued, Len(issued))
             /\ Len(sessions') = Len(sessions) + 1
             /\ sessions'[Len(sessions')] = [output_queue |-> <<>>, is_writable |-> FALSE]
             /\ \A i \in 1..Len(sessions) : sessions'[i] = sessions[i]]_vars

\* Reached: add_session has been called twice and has returned 0, then 1.
C14_Witness ==
    /\ pc = "setup"
    /\ issued = <<0, 1>>
    /\ Len(sessions) = 2

\* ---------------------------------------------------------------------- C15
Handling == pc \in {"flushed", "drain", "reacted", "broke"}

\* C15: whatever the session's transport does, the handling of a readiness
\* event runs to completion: from every point of the handling the loop of run
\* comes back to polling.
C15_EventHandlingCompletes == Handling ~> (pc = "poll")

\* ---------------------------------------------------------------------- C16
\* C16: a step that processes Reaction::RawMsg(M) on a session makes exactly
\* one try_send, of M; when it succeeds the entry is as before; when it fails
\* transiently the queue is the former queue with M appended and the flag is
\* false; when it fails otherwise the entry is as before, M being neither
\* queued nor on the wire.
C16_RawMsgIsOneSend ==
    [][(ReactStep /\ lastReaction'.tag = "RawMsg")
       => LET s == event.token
              before == sessions[s + 1]
              after == sessions'[s + 1]
              sends == SendsOf(ops')
          IN /\ Len(sends) = 1
             /\ sends[1].raw = lastReaction'.msg
             /\ sends[1].s = s
             /\ sends[1].kind = "Ok"
                   => after = before /\ wire'[s] = Append(wire[s], sends[1].id)
             /\ sends[1].kind \in Transient
                   => /\ after.output_queue
                            = Append(before.output_queue, AsQueued(sends[1]))
                      /\ after.is_writable = FALSE
                      /\ wire'[s] = wire[s]
             /\ sends[1].kind \notin Transient \cup {"Ok"}
                   => after = before /\ wire'[s] = wire[s]]_vars

\* Reached: RawMsg(X) was processed on a session with a message already
\* queued, the send timed out, and X is queued behind that message.
C16_Witness ==
    /\ pc = "reacted"
    /\ lastReaction = RawMsg(MsgX)
    /\ Len(SendsOf(ops)) = 1
    /\ SendsOf(ops)[1].kind = "TimedOut"
    /\ Len(sessions[event.token + 1].output_queue) = 2
    /\ sessions[event.token + 1].output_queue[2] = AsQueued(SendsOf(ops)[1])

\* ---------------------------------------------------------------------- C17
WritableStep == pc = "poll" /\ pc' = "flushed" /\ event'.writable

\* C17: in the handling of every writable event, readable as well or not, the
\* flag is set and the flush is performed: the head of a non-empty queue is
\* sent first, and the flag is true afterwards unless a send of the flush
\* failed transiently. The step of the flush makes no receive and no handler
\* call; those are made only by the steps of the drain, which follow it and
\* send no message that was queued.
C17_WritableEventFlushesFirst ==
    [][/\ WritableStep
          => LET s == event'.token
                 queue == sessions[s + 1].output_queue
             IN /\ \A i \in 1..Len(ops') : IsSend(ops'[i]) /\ ops'[i].s = s
                /\ queue # <<>> => Len(ops') >= 1 /\ AsQueued(ops'[1]) = queue[1]
                /\ sessions'[s + 1].is_writable = ~SendFailedTransiently(ops', s)
                /\ ~HasTransient(ops') => Len(ops') = Len(queue)
       /\ (\E i \in 1..Len(ops') : ~IsSend(ops'[i]))
          => /\ pc = "drain"
             /\ \A i \in 1..Len(ops') :
                   IsSend(ops'[i])
                      => ~InQueue(sessions[event.token + 1].output_queue,
                                  AsQueued(ops'[i]))]_vars

\* Reached: an event both writable and readable on a session with a queued
\* message; the flush has sent it, the flag is true, and the drain is next.
C17_Witness ==
    /\ pc = "flushed"
    /\ event.writable /\ event.readable
    /\ Len(ops) = 1 /\ IsOkSend(ops[1])
    /\ sessions[event.token + 1].is_writable
    /\ sessions[event.token + 1].output_queue = <<>>

\* ---------------------------------------------------------------------- C18
FatalKinds == {"ConnectionReset", "Parse"}

\* C18: a receive that fails with an error that is neither would-block nor
\* timed-out is delivered to the handler, the Reaction returned is processed,
\* and the drain receives again; the drain is left only by a receive that
\* yields no message or fails transiently.
C18_FatalReceiveGoesToHandlerDrainGoesOn ==
    [][/\ (pc = "drain" /\ IsRecv(ops'[1]) /\ ops'[1].kind \in FatalKinds)
          => /\ pc' = "reacted"
             /\ Len(ops') >= 2
             /\ IsHandler(ops'[2]) /\ ops'[2].kind = ops'[1].kind
             /\ Len(RecvsOf(ops')) = 1 /\ Len(HandlersOf(ops')) = 1
             /\ Len(SendsOf(ops')) = Leaves(lastReaction')
             /\ lastReaction'.tag = "RawMsg"
                   => SendsOf(ops')[1].raw = lastReaction'.msg
       /\ pc = "reacted" => pc' = "drain"
       /\ pc = "drain"
          => /\ pc' \in {"reacted", "broke"}
             /\ pc' = "broke"
                   => /\ Len(ops') = 1 /\ IsRecv(ops'[1])
                      /\ ops'[1].kind \in {"None"} \cup Transient]_vars

\* Reached: a receive failed with a connection reset, the handler was called
\* with that error, and the message of its Reaction was sent.
C18_Witness ==
    /\ pc = "reacted"
    /\ Len(ops) = 3
    /\ IsRecv(ops[1]) /\ ops[1].kind = "ConnectionReset"
    /\ IsHandler(ops[2]) /\ ops[2].kind = "ConnectionReset"
    /\ IsOkSend(ops[3])
    /\ lastReaction = RawMsg(MsgX)

\* ---------------------------------------------------------------------- C19
\* C19: whenever the loop of run is about to poll, every session whose queue
\* is not empty has its writable flag false.
C19_QueuedImpliesNotWritableAtPoll ==
    pc = "poll"
       => \A i \in 1..Len(sessions) :
             sessions[i].output_queue # <<>> => ~sessions[i].is_writable

\* Reached: the loop is about to poll; one session holds a queued message and
\* its flag is false, the other has an empty queue and its flag is true.
C19_Witness ==
    /\ pc = "poll"
    /\ Len(sessions) = 2
    /\ sessions[1].output_queue # <<>> /\ ~sessions[1].is_writable
    /\ sessions[2].output_queue = <<>> /\ sessions[2].is_writable

\* ---------------------------------------------------------------------- C20
IsSuffix(q, of) == \E k \in 0..Len(of) : q = SubSeq(of, k + 1, Len(of))

\* The entries that the sends `os` on session s left to be queued, in order.
Refused(os, s) ==
    LET failed(o) == IsSend(o) /\ o.s = s /\ o.kind \in Transient
        left == SelectSeq(os, failed)
    IN [i \in 1..Len(left) |-> AsQueued(left[i])]

\* C20: the step of the flush calls neither the handler nor receive, and the
\* queue after it is a suffix of the queue before it; the handling of an event
\* that is writable and not readable ends with that step, the handler not
\* called; in every other step a queue changes only by the messages whose
\* send failed transiently being appended at its tail.
C20_FlushOnlyShortensQueue ==
    [][/\ (pc = "poll" /\ pc' = "flushed")
          => /\ \A i \in 1..Len(ops') : IsSend(ops'[i])
             /\ \A s \in 0..(Len(sessions) - 1) :
                   /\ IsSuffix(sessions'[s + 1].output_queue, sessions[s + 1].output_queue)
                   /\ Len(sessions'[s + 1].output_queue) <= Len(sessions[s + 1].output_queue)
       /\ (pc = "flushed" /\ ~event.readable) => pc' = "poll"
       /\ (pc # "poll" /\ Len(sessions') = Len(sessions))
          => \A s \in 0..(Len(sessions) - 1) :
                sessions'[s + 1].output_queue
                   = sessions[s + 1].output_queue \o Refused(ops', s)]_vars

\* Reached: a writable, not readable event on a session with two queued
\* messages; the first was sent, the second would block and is the queue.
C20_Witness ==
    /\ pc = "flushed"
    /\ event.writable /\ ~event.readable
    /\ Len(ops) = 2
    /\ IsOkSend(ops[1])
    /\ IsSend(ops[2]) /\ ops[2].kind = "WouldBlock"
    /\ sessions[event.token + 1].output_queue = <<AsQueued(ops[2])>>

====
